---- MODULE Spec2Model ----
(***************************************************************************)
(* The Q16 reciprocal square root kernel of 3-pipeline/csrc/rsqrt-c.c:     *)
(* mul32 (shift-add 32x32->64 multiply), clz (leading zero count),         *)
(* rsqrt_table and fast_rsqrt (table, interpolation, two Newton steps).    *)
(*                                                                         *)
(* TLC integers are 32-bit signed, so a uint32_t or uint64_t value is held *)
(* as a little-endian sequence of 16-bit halfwords: two halfwords for a    *)
(* uint32_t, four for a uint64_t.  The C int variables (exp, n, i, iter)   *)
(* are plain integers.                                                     *)
(***************************************************************************)
EXTENDS Integers, Sequences, FiniteSets, TLC

\* ------------------------------------------------------------ bounds
\* fast_rsqrt and clz are exercised on 0..MaxSmall, on 2^e - k .. 2^e + k
\* (k <= MaxOff) around every power of two, and inside every binade on
\* 2^e + 2^(e-j) and 2^(e+1) - 2^(e-j) for j <= MaxFrac.
MaxSmall == 40
MaxOff == 2
MaxFrac == 3
\* mul32 is exercised on all pairs drawn from 0..MaxMulSmall, from
\* 2^e - k .. 2^e + k (k <= MaxMulOff) for a spread of exponents, and from
\* a few bit patterns.
MaxMulSmall == 3
MaxMulOff == 1

\* ------------------------------------------------------------ machine words
Half == 2^16

\* the uint32_t with high halfword hi and low halfword lo
U32(hi, lo) == <<lo, hi>>
\* the uint32_t of an integer literal below 2^31
Lit32(n) == <<n % Half, n \div Half>>
Zero32 == <<0, 0>>
Zero64 == <<0, 0, 0, 0>>

\* (uint64_t)u and (uint32_t)u
Widen64(u) == u \o <<0, 0>>
Trunc32(u) == SubSeq(u, 1, 2)

Limb(u, i) == IF i >= 1 /\ i <= Len(u) THEN u[i] ELSE 0

IsZero(u) == \A i \in 1..Len(u) : u[i] = 0

\* u + v in the width of u (the carry out of the top halfword is dropped)
RECURSIVE AddFrom(_, _, _, _)
AddFrom(u, v, i, c) ==
    IF i > Len(u) THEN <<>>
    ELSE LET s == u[i] + v[i] + c
         IN  <<s % Half>> \o AddFrom(u, v, i + 1, s \div Half)

Add(u, v) == AddFrom(u, v, 1, 0)

\* u - v in the width of u (wraps around below zero, as unsigned C does)
RECURSIVE SubFrom(_, _, _, _)
SubFrom(u, v, i, br) ==
    IF i > Len(u) THEN <<>>
    ELSE LET d == u[i] - v[i] - br
         IN  <<(d + Half) % Half>> \o SubFrom(u, v, i + 1, IF d < 0 THEN 1 ELSE 0)

Sub(u, v) == SubFrom(u, v, 1, 0)

\* u << s and u >> s in the width of u, 0 <= s < width
Shl(u, s) ==
    LET q == s \div 16
        t == s % 16
    IN  [i \in 1..Len(u) |->
            ((Limb(u, i - q) * 2^t) % Half) + (Limb(u, i - q - 1) \div 2^(16 - t))]

Shr(u, s) ==
    LET q == s \div 16
        t == s % 16
    IN  [i \in 1..Len(u) |->
            (Limb(u, i + q) \div 2^t) + ((Limb(u, i + q + 1) % 2^t) * 2^(16 - t))]

\* m & n on halfwords, and u & v on words of the same width
RECURSIVE AndHalf(_, _)
AndHalf(m, n) ==
    IF m = 0 \/ n = 0 THEN 0
    ELSE ((m % 2) * (n % 2)) + (2 * AndHalf(m \div 2, n \div 2))

And(u, v) == [i \in 1..Len(u) |-> AndHalf(u[i], v[i])]

\* u < v on words of the same width
RECURSIVE LtFrom(_, _, _)
LtFrom(u, v, i) ==
    IF i = 0 THEN FALSE
    ELSE IF u[i] # v[i] THEN u[i] < v[i]
    ELSE LtFrom(u, v, i - 1)

Lt(u, v) == LtFrom(u, v, Len(u))
Le(u, v) == ~Lt(v, u)

\* ------------------------------------------------------------ mul32
\* for (i = 0; i < 32; ++i) if (b & (1U << i)) r += ((uint64_t)a << i);
\* mutant: the shift done in 32 bits, (uint64_t)(a << i)
AddendNarrow(a, i) == Widen64(Shl(a, i))

\* ((uint64_t)a << i)
Addend(a, i) == Shl(Widen64(a), i)

RECURSIVE mul32Loop(_, _, _, _)
mul32Loop(a, b, i, r) ==
    IF i < 32
    THEN mul32Loop(a, b, i + 1,
                   IF ~IsZero(And(b, Shl(Lit32(1), i)))
                   THEN Add(r, Addend(a, i))
                   ELSE r)
    ELSE r

mul32(a, b) == mul32Loop(a, b, 0, Zero64)

\* ------------------------------------------------------------ clz
\* one narrowing step: if (!(x & mask)) { n += k; x <<= k; }
\* mutant: the count is advanced but x is not shifted
clzStepNoShift(s, mask, k) ==
    IF IsZero(And(s.x, mask)) THEN [n |-> s.n + k, x |-> s.x] ELSE s

clzStep(s, mask, k) ==
    IF IsZero(And(s.x, mask)) THEN [n |-> s.n + k, x |-> Shl(s.x, k)] ELSE s

\* mutant: the last single-bit test is left out
clzNoLastBit(x) ==
    IF IsZero(x) THEN 32
    ELSE LET s0 == [n |-> 0, x |-> x]
             s1 == clzStep(s0, U32(65535, 0), 16)
             s2 == clzStep(s1, U32(65280, 0), 8)
             s3 == clzStep(s2, U32(61440, 0), 4)
             s4 == clzStep(s3, U32(49152, 0), 2)
         IN  s4.n

clz(x) ==
    IF IsZero(x) THEN 32
    ELSE LET s0 == [n |-> 0, x |-> x]
             s1 == clzStep(s0, U32(65535, 0), 16)
             s2 == clzStep(s1, U32(65280, 0), 8)
             s3 == clzStep(s2, U32(61440, 0), 4)
             s4 == clzStep(s3, U32(49152, 0), 2)
         IN  IF IsZero(And(s4.x, U32(32768, 0))) THEN s4.n + 1 ELSE s4.n

\* ------------------------------------------------------------ rsqrt_table
rsqrt_table ==
    << 65536, 46341, 32768, 23170, 16384,
       11585,  8192,  5793,  4096,  2896,
        2048,  1448,  1024,   724,   512,
         362,   256,   181,   128,    90,
          64,    45,    32,    23,    16,
          11,     8,     6,     4,     3,
           2,     1 >>

\* rsqrt_table[e] as a uint32_t (the tuple is indexed from 1)
TableAt(e) == Lit32(rsqrt_table[e + 1])

\* ------------------------------------------------------------ fast_rsqrt, by statement
\* 0xFFFFFFFFu, the "infinity" returned for x == 0
Infinity == U32(65535, 65535)

\* 1u << exp
Pow2(exp) == Shl(Lit32(1), exp)

\* (exp < 31) ? rsqrt_table[exp + 1] : 0
NextEntry(exp) == IF exp < 31 THEN TableAt(exp + 1) ELSE Zero32

\* mutant: no promotion to 64 bits, ((x - (1u << exp)) << 16) >> exp
FracOfNarrow(x, exp) == Shr(Shl(Sub(x, Shl(Lit32(1), exp)), 16), exp)

\* mutant: the fraction is not normalised by >> exp
FracOfUnscaled(x, exp) ==
    Trunc32(Shl(Sub(Widen64(x), Shl(Widen64(Lit32(1)), exp)), 16))

\* (uint32_t)((((uint64_t)x - (1ULL << exp)) << 16) >> exp)
FracOf(x, exp) ==
    Trunc32(Shr(Shl(Sub(Widen64(x), Shl(Widen64(Lit32(1)), exp)), 16), exp))

\* mutant: the product rescaled by >> 15
InterpolatedShift15(y, delta, frac) == Sub(y, Trunc32(Shr(mul32(delta, frac), 15)))

\* y - (uint32_t)(mul32(delta, frac) >> 16)
Interpolated(y, delta, frac) == Sub(y, Trunc32(Shr(mul32(delta, frac), 16)))

\* (uint32_t)mul32(y, y)
NewtonY2(y) == Trunc32(mul32(y, y))

\* mutant: the product rescaled by >> 15
NewtonXY2Shift15(x, y2) == Trunc32(Shr(mul32(x, y2), 15))

\* (uint32_t)(mul32(x, y2) >> 16)
NewtonXY2(x, y2) == Trunc32(Shr(mul32(x, y2), 16))

\* mutant: >> 16, the halving of the 3/2 coefficient forgotten
NewtonYShift16(y, xy2) == Trunc32(Shr(mul32(y, Sub(Shl(Lit32(3), 16), xy2)), 16))

\* (uint32_t)(mul32(y, (3u << 16) - xy2) >> 17)
NewtonY(y, xy2) == Trunc32(Shr(mul32(y, Sub(Shl(Lit32(3), 16), xy2)), 17))

\* mutant: one iteration too many
LoopCondThree(iter) == iter <= 2

\* iter < 2
LoopCond(iter) == iter < 2

\* ------------------------------------------------------------ fast_rsqrt, as a function
\* Each statement's value is bound (v \in {...}) before the next statement
\* is evaluated, as the C assignments do.

\* the body of the refinement loop:  y2, xy2, y in turn
NewtonIter(x, y) ==
    CHOOSE yn \in { NewtonY(y, xy2) :
                    xy2 \in { NewtonXY2(x, y2) : y2 \in {NewtonY2(y)} } } : TRUE

\* for (int iter = 0; iter < 2; ++iter) { ... }
RECURSIVE NewtonLoop(_, _, _)
NewtonLoop(x, y, iter) ==
    IF LoopCond(iter)
    THEN CHOOSE r \in { NewtonLoop(x, yn, iter + 1) : yn \in {NewtonIter(x, y)} } : TRUE
    ELSE y

\* steps 1 to 3: the table estimate, interpolated when x is no power of two
Estimate(x) ==
    LET exp == 31 - clz(x)
        y   == TableAt(exp)
    IN  IF Lt(Pow2(exp), x)
        THEN CHOOSE yi \in { Interpolated(y, delta, frac) :
                             delta \in {Sub(y, NextEntry(exp))},
                             frac \in {FracOf(x, exp)} } : TRUE
        ELSE y

fast_rsqrt(x) ==
    IF IsZero(x) THEN Infinity
    ELSE IF x = Lit32(1) THEN Lit32(65536)
    ELSE CHOOSE r \in { NewtonLoop(x, y, 0) : y \in {Estimate(x)} } : TRUE

\* ------------------------------------------------------------ inputs
\* uint32_t xs[] = {1, 4, 16, 20, 30, 100, 120, 130, 0, 0xFFFFFFFFu};
xs == {Lit32(1), Lit32(4), Lit32(16), Lit32(20), Lit32(30), Lit32(100),
       Lit32(120), Lit32(130), Zero32, U32(65535, 65535)}

Small == {Lit32(k) : k \in 0..MaxSmall}

\* 2^e - k .. 2^e + k, for e = 32 wrapped into 32 bits (2^32 - k)
NearPow2(es, off) ==
    {Add(Pow2(e), Lit32(k)) : e \in es \cap 0..31, k \in 0..off}
        \cup {Sub(IF e = 32 THEN Zero32 ELSE Pow2(e), Lit32(k)) :
                 e \in es \cap 1..32, k \in 1..off}

\* 2^e + 2^(e-j) and 2^(e+1) - 2^(e-j): points inside the binade of 2^e
InBinade ==
    UNION { {Add(Pow2(e), Pow2(e - j)), Add(Pow2(e), Sub(Pow2(e), Pow2(e - j)))} :
            <<e, j>> \in {p \in (0..31) \X (1..MaxFrac) : p[2] <= p[1]} }

Inputs == xs \cup Small \cup NearPow2(0..32, MaxOff) \cup InBinade

MulInputs ==
    {Lit32(k) : k \in 0..MaxMulSmall}
        \cup NearPow2({1, 8, 15, 16, 17, 24, 31, 32}, MaxMulOff)
        \cup {U32(43690, 43690), U32(21845, 21845), U32(65535, 0), U32(0, 65535)}

\* ------------------------------------------------------------ state
VARIABLES
    pc,             \* the statement about to run
    a, b, prod,     \* a call of mul32: its operands and its result
    cx, cn,         \* a call of clz: its operand and its result
    x, ret,         \* a call of fast_rsqrt: its argument and its result
    exp, y, y_next, delta, frac, iter, y2, xy2,   \* the locals of fast_rsqrt
    clzCalls,       \* calls of clz made by the running fast_rsqrt
    mulCalls,       \* calls of mul32 made by the running fast_rsqrt
    iterMulCalls    \* calls of mul32 made by the current loop iteration

mulVars == <<a, b, prod>>
clzVars == <<cx, cn>>
locals == <<exp, y, y_next, delta, frac, iter, y2, xy2>>
counters == <<clzCalls, mulCalls, iterMulCalls>>
vars == <<pc, mulVars, clzVars, x, ret, locals, counters>>

Init ==
    /\ pc = "idle"
    /\ a = Zero32 /\ b = Zero32 /\ prod = Zero64
    /\ cx = Zero32 /\ cn = 0
    /\ x = Zero32 /\ ret = Zero32
    /\ exp = 0 /\ y = Zero32 /\ y_next = Zero32 /\ delta = Zero32
    /\ frac = Zero32 /\ iter = 0 /\ y2 = Zero32 /\ xy2 = Zero32
    /\ clzCalls = 0 /\ mulCalls = 0 /\ iterMulCalls = 0

\* ------------------------------------------------------------ the callers
CallMul32 ==
    /\ pc = "idle"
    /\ \E p \in MulInputs, q \in MulInputs :
           /\ a' = p
           /\ b' = q
           /\ prod' = mul32(p, q)
    /\ pc' = "mul32_done"
    /\ UNCHANGED <<clzVars, x, ret, locals, counters>>

CallClz ==
    /\ pc = "idle"
    /\ \E v \in Inputs :
           /\ cx' = v
           /\ cn' = clz(v)
    /\ pc' = "clz_done"
    /\ UNCHANGED <<mulVars, x, ret, locals, counters>>

\* uint32_t y = fast_rsqrt(x);
CallFastRsqrt ==
    /\ pc = "idle"
    /\ \E v \in Inputs : x' = v
    /\ pc' = "edge"
    /\ UNCHANGED <<mulVars, clzVars, ret, locals, counters>>

\* the next call starts from fresh locals
NextCall ==
    /\ pc \in {"mul32_done", "clz_done", "done"}
    /\ pc' = "idle"
    /\ a' = Zero32 /\ b' = Zero32 /\ prod' = Zero64
    /\ cx' = Zero32 /\ cn' = 0
    /\ x' = Zero32 /\ ret' = Zero32
    /\ exp' = 0 /\ y' = Zero32 /\ y_next' = Zero32 /\ delta' = Zero32
    /\ frac' = Zero32 /\ iter' = 0 /\ y2' = Zero32 /\ xy2' = Zero32
    /\ clzCalls' = 0 /\ mulCalls' = 0 /\ iterMulCalls' = 0

\* ------------------------------------------------------------ fast_rsqrt
\* if (x == 0) return 0xFFFFFFFFu;  if (x == 1) return 65536u;
EdgeCases ==
    /\ pc = "edge"
    /\ IF IsZero(x) THEN ret' = Infinity /\ pc' = "done"
       ELSE IF x = Lit32(1) THEN ret' = Lit32(65536) /\ pc' = "done"
       ELSE ret' = ret /\ pc' = "msb"
    /\ UNCHANGED <<mulVars, clzVars, x, locals, counters>>

\* int exp = 31 - clz(x);
FindMsb ==
    /\ pc = "msb"
    /\ exp' = 31 - clz(x)
    /\ clzCalls' = clzCalls + 1
    /\ pc' = "lut"
    /\ UNCHANGED <<mulVars, clzVars, x, ret, y, y_next, delta, frac, iter, y2, xy2,
                   mulCalls, iterMulCalls>>

\* uint32_t y = rsqrt_table[exp];   (a read outside the table is undefined)
LutEstimate ==
    /\ pc = "lut"
    /\ IF exp \in 0..31
       THEN y' = TableAt(exp) /\ pc' = "interp"
       ELSE y' = y /\ pc' = "undefined"
    /\ UNCHANGED <<mulVars, clzVars, x, ret, exp, y_next, delta, frac, iter, y2, xy2,
                   counters>>

\* if (x > (1u << exp)) {
InterpTest ==
    /\ pc = "interp"
    /\ pc' = IF Lt(Pow2(exp), x) THEN "next" ELSE "loop"
    /\ UNCHANGED <<mulVars, clzVars, x, ret, locals, counters>>

\* uint32_t y_next = (exp < 31) ? rsqrt_table[exp + 1] : 0;
FetchNext ==
    /\ pc = "next"
    /\ IF exp < 31 /\ exp + 1 \notin 0..31
       THEN y_next' = y_next /\ pc' = "undefined"
       ELSE y_next' = NextEntry(exp) /\ pc' = "delta"
    /\ UNCHANGED <<mulVars, clzVars, x, ret, exp, y, delta, frac, iter, y2, xy2, counters>>

\* uint32_t delta = y - y_next;
ComputeDelta ==
    /\ pc = "delta"
    /\ delta' = Sub(y, y_next)
    /\ pc' = "frac"
    /\ UNCHANGED <<mulVars, clzVars, x, ret, exp, y, y_next, frac, iter, y2, xy2, counters>>

\* uint32_t frac = (uint32_t)((((uint64_t)x - (1ULL << exp)) << 16) >> exp);
ComputeFrac ==
    /\ pc = "frac"
    /\ frac' = FracOf(x, exp)
    /\ pc' = "correct"
    /\ UNCHANGED <<mulVars, clzVars, x, ret, exp, y, y_next, delta, iter, y2, xy2, counters>>

\* y -= (uint32_t)(mul32(delta, frac) >> 16);  }
Interpolate ==
    /\ pc = "correct"
    /\ y' = Interpolated(y, delta, frac)
    /\ mulCalls' = mulCalls + 1
    /\ pc' = "loop"
    /\ UNCHANGED <<mulVars, clzVars, x, ret, exp, y_next, delta, frac, iter, y2, xy2,
                   clzCalls, iterMulCalls>>

\* for (int iter = 0;
LoopInit ==
    /\ pc = "loop"
    /\ iter' = 0
    /\ pc' = "test"
    /\ UNCHANGED <<mulVars, clzVars, x, ret, exp, y, y_next, delta, frac, y2, xy2, counters>>

\* iter < 2;
LoopTest ==
    /\ pc = "test"
    /\ pc' = IF LoopCond(iter) THEN "y2" ELSE "return"
    /\ iterMulCalls' = 0
    /\ UNCHANGED <<mulVars, clzVars, x, ret, locals, clzCalls, mulCalls>>

\* uint32_t y2 = (uint32_t)mul32(y, y);
ComputeY2 ==
    /\ pc = "y2"
    /\ y2' = NewtonY2(y)
    /\ mulCalls' = mulCalls + 1
    /\ iterMulCalls' = iterMulCalls + 1
    /\ pc' = "xy2"
    /\ UNCHANGED <<mulVars, clzVars, x, ret, exp, y, y_next, delta, frac, iter, xy2, clzCalls>>

\* uint32_t xy2 = (uint32_t)(mul32(x, y2) >> 16);
ComputeXY2 ==
    /\ pc = "xy2"
    /\ xy2' = NewtonXY2(x, y2)
    /\ mulCalls' = mulCalls + 1
    /\ iterMulCalls' = iterMulCalls + 1
    /\ pc' = "y"
    /\ UNCHANGED <<mulVars, clzVars, x, ret, exp, y, y_next, delta, frac, iter, y2, clzCalls>>

\* y = (uint32_t)(mul32(y, (3u << 16) - xy2) >> 17);
UpdateY ==
    /\ pc = "y"
    /\ y' = NewtonY(y, xy2)
    /\ mulCalls' = mulCalls + 1
    /\ iterMulCalls' = iterMulCalls + 1
    /\ pc' = "incr"
    /\ UNCHANGED <<mulVars, clzVars, x, ret, exp, y_next, delta, frac, iter, y2, xy2, clzCalls>>

\* ++iter)
LoopIncr ==
    /\ pc = "incr"
    /\ iter' = iter + 1
    /\ pc' = "test"
    /\ UNCHANGED <<mulVars, clzVars, x, ret, exp, y, y_next, delta, frac, y2, xy2, counters>>

\* return y;
Return ==
    /\ pc = "return"
    /\ ret' = y
    /\ pc' = "done"
    /\ UNCHANGED <<mulVars, clzVars, x, locals, counters>>

Next ==
    \/ CallMul32 \/ CallClz \/ CallFastRsqrt \/ NextCall
    \/ EdgeCases \/ FindMsb \/ LutEstimate \/ InterpTest
    \/ FetchNext \/ ComputeDelta \/ ComputeFrac \/ Interpolate
    \/ LoopInit \/ LoopTest \/ ComputeY2 \/ ComputeXY2 \/ UpdateY \/ LoopIncr
    \/ Return

Spec == Init /\ [][Next]_vars

\* ------------------------------------------------------------ exact arithmetic
\* Natural numbers of any size, as halfword sequences, for stating what the
\* words above are meant to equal.  Times multiplies byte by byte (schoolbook),
\* independently of mul32.
Bytes(u) ==
    [k \in 1..(2 * Len(u)) |->
        IF k % 2 = 1 THEN u[(k + 1) \div 2] % 256 ELSE u[k \div 2] \div 256]

Halves(bs) == [k \in 1..(Len(bs) \div 2) |-> bs[2 * k - 1] + (256 * bs[2 * k])]

RECURSIVE ColumnSum(_, _, _, _)
ColumnSum(p, q, k, i) ==
    IF i > Len(p) THEN 0
    ELSE (IF k + 1 - i >= 1 /\ k + 1 - i <= Len(q) THEN p[i] * q[k + 1 - i] ELSE 0)
             + ColumnSum(p, q, k, i + 1)

RECURSIVE ProductBytes(_, _, _, _)
ProductBytes(p, q, k, c) ==
    IF k > Len(p) + Len(q) THEN <<>>
    ELSE LET t == ColumnSum(p, q, k, 1) + c
         IN  <<t % 256>> \o ProductBytes(p, q, k + 1, t \div 256)

Times(u, v) == Halves(ProductBytes(Bytes(u), Bytes(v), 1, 0))

Pad(u, n) == [i \in 1..n |-> Limb(u, i)]
Longest(u, v) == IF Len(u) > Len(v) THEN Len(u) ELSE Len(v)
NatLt(u, v) == Lt(Pad(u, Longest(u, v)), Pad(v, Longest(u, v)))
NatLe(u, v) == ~NatLt(v, u)
NatEq(u, v) == Pad(u, Longest(u, v)) = Pad(v, Longest(u, v))

\* 2^n as a natural number, n <= 95
TwoTo(n) == Shl(<<1, 0, 0, 0, 0, 0>>, n)

IsPow2(v, e) == v = Pow2(e)

\* ------------------------------------------------------------ claims

\* C1: mul32(a, b) is the exact mathematical product a * b, as a 64-bit value,
\* for every pair of operands, (0,0) and (0xFFFFFFFF,0xFFFFFFFF) included.
C1_Mul32Exact == pc = "mul32_done" => prod = Times(a, b)

C1_Witness ==
    /\ pc = "mul32_done"
    /\ a = U32(65535, 65535) /\ b = U32(65535, 65535)
    /\ prod = <<1, 0, 65534, 65535>>

\* C2: clz(0) = 32, and for nonzero x clz(x) is the n in 0..31 with
\* 2^(31-n) <= x < 2^(32-n).
C2_ClzHighestBit ==
    pc = "clz_done" =>
        IF IsZero(cx) THEN cn = 32
        ELSE /\ cn \in 0..31
             /\ NatLe(TwoTo(31 - cn), cx)
             /\ NatLt(cx, TwoTo(32 - cn))

C2_Witness == pc = "clz_done" /\ cx = Lit32(1) /\ cn = 31

\* C3 (as stated): fast_rsqrt(2^e) is exactly rsqrt_table[e] for every e in 0..31.
C3_PowerOfTwoExact ==
    \A e \in 0..31 : (pc = "done" /\ IsPow2(x, e)) => ret = TableAt(e)

\* the exponents whose table entry the Newton iterations lower by one
Perturbed == {7, 23, 27, 29}

\* C3 (amended): fast_rsqrt(2^e) is rsqrt_table[e], except for e in
\* {7, 23, 27, 29}, where it is rsqrt_table[e] - 1.
C3_PowerOfTwoNear ==
    \A e \in 0..31 :
        (pc = "done" /\ IsPow2(x, e)) =>
            ret = IF e \in Perturbed THEN Sub(TableAt(e), Lit32(1)) ELSE TableAt(e)

C3_Witness == pc = "done" /\ IsPow2(x, 7) /\ ret = Lit32(5792)

\* C4: fast_rsqrt(x) is 0xFFFFFFFF if and only if x = 0, and for nonzero x
\* the result is nonzero.
C4_SentinelOnlyForZero ==
    pc = "done" =>
        /\ (ret = Infinity) <=> IsZero(x)
        /\ ~IsZero(x) => ~IsZero(ret)

C4_Witness == pc = "done" /\ x = U32(65535, 65535) /\ ret = Lit32(1)

\* 0.92^2 * 2^32 <= v * w^2 <= 1.08^2 * 2^32, scaled by 10000 to stay integral
Within8Percent(v, w) ==
    LET t == Times(Lit32(10000), Times(v, Times(w, w)))
    IN  /\ NatLe(Times(Lit32(8464), TwoTo(32)), t)
        /\ NatLe(t, Times(Lit32(11664), TwoTo(32)))

C6_StrictlyDecreasing ==
    \A e1 \in 0..31 :
        (pc = "done" /\ IsPow2(x, e1)) =>
            \A e2 \in (e1 + 1)..31 : Lt(fast_rsqrt(Pow2(e2)), ret)

\* C6 (amended): over the powers of two fast_rsqrt is non-increasing, and
\* strictly decreasing except from 2^29 to 2^30, where both results are 2.
C6_Decreasing ==
    \A e1 \in 0..31 :
        (pc = "done" /\ IsPow2(x, e1)) =>
            \A e2 \in (e1 + 1)..31 :
                IF e1 = 29 /\ e2 = 30
                THEN fast_rsqrt(Pow2(e2)) = ret /\ ret = Lit32(2)
                ELSE Lt(fast_rsqrt(Pow2(e2)), ret)

C6_Witness == pc = "done" /\ IsPow2(x, 29) /\ ret = fast_rsqrt(Pow2(30))

\* (2t-1)^2 * 2^e <= 2^34 < (2t+1)^2 * 2^e:  t = round(65536 / sqrt(2^e))
IsRounded(t, e) ==
    LET lo == Sub(Add(t, t), Lit32(1))
        hi == Add(Add(t, t), Lit32(1))
    IN  /\ NatLe(Times(Times(lo, lo), TwoTo(e)), TwoTo(34))
        /\ NatLt(TwoTo(34), Times(Times(hi, hi), TwoTo(e)))

\* C7: every table entry fast_rsqrt reads is the correctly rounded
\* 65536 / sqrt(2^exp).
C7_TableRounded == pc = "interp" => IsRounded(y, exp)

\* C8: for x > 1 the exponent satisfies 1 <= exp <= 31 and
\* 2^exp <= x < 2^(exp+1); no table read is out of range, and with exp = 31
\* the next entry is taken as 0.
C8_ExponentAndIndex ==
    /\ pc # "undefined"
    /\ pc \in {"lut", "interp", "next", "delta", "frac", "correct", "loop"} =>
           /\ exp \in 1..31
           /\ NatLe(TwoTo(exp), x)
           /\ NatLt(x, TwoTo(exp + 1))
    /\ pc \in {"delta", "frac", "correct"} =>
           y_next = IF exp = 31 THEN Zero32 ELSE TableAt(exp + 1)

C8_Witness == pc = "delta" /\ exp = 31 /\ x = U32(65535, 65535) /\ y_next = Zero32

\* v < 2^32
Fits32(v) == NatLt(v, TwoTo(32))

\* C9: for x > 1 no intermediate of the interpolation or of either Newton
\* iteration is changed by 32-bit truncation or wraparound.
C9_NoTruncation ==
    /\ pc = "correct" => NatLe(Shr(mul32(delta, frac), 16), y)
    /\ pc = "y2" => Fits32(mul32(y, y))
    /\ pc = "xy2" => Fits32(Shr(mul32(x, y2), 16))
    /\ pc = "y" =>
           /\ Le(xy2, Shl(Lit32(3), 16))
           /\ Fits32(Shr(mul32(y, Sub(Shl(Lit32(3), 16), xy2)), 17))

C9_Witness == pc = "y" /\ iter = 1 /\ x = U32(65535, 65535)

\* C10 (as stated): clz is called once, the refinement runs twice, and each
\* iteration calls mul32 exactly twice.
C10_TwoMulPerIteration ==
    /\ pc = "done" /\ Lt(Lit32(1), x) => clzCalls = 1 /\ iter = 2
    /\ pc = "incr" => iterMulCalls = 2

\* C10 (amended): clz is called once, the refinement runs twice, and each
\* iteration calls mul32 exactly three times.
C10_ThreeMulPerIteration ==
    /\ pc = "done" /\ Lt(Lit32(1), x) => clzCalls = 1 /\ iter = 2
    /\ pc = "incr" => iterMulCalls = 3 /\ iter \in {0, 1}

C10_Witness == pc = "incr" /\ iter = 1 /\ iterMulCalls = 3 /\ clzCalls = 1
====
